---- MODULE Spec2Model ----
(***************************************************************************)
(* Model of app.py: the webhook handler of the pull-request review bot.    *)
(*                                                                         *)
(* Text is modelled as a sequence of chunks [s, n]: the literal string s   *)
(* followed by n ordinary characters (no line break, no '+', no '-') whose *)
(* content is irrelevant.  Lengths, slices, prefixes, line breaks and      *)
(* substring tests are computed on that representation.  The lexer has no  *)
(* backquote inside strings, so a backquote of the source is written as an *)
(* apostrophe (same length).                                               *)
(***************************************************************************)
EXTENDS Integers, Sequences, FiniteSets, TLC

\* ---------------------------------------------------------------- bounds
MaxFiles == 6
MaxCommits == 3
MaxComments == 3

\* ------------------------------------------------------------------ text
Lit(str) == <<[s |-> str, n |-> 0]>>

Blank(k) == <<[s |-> "", n |-> k]>>

RECURSIVE TLen(_)
TLen(t) == IF t = <<>> THEN 0 ELSE Len(t[1].s) + t[1].n + TLen(Tail(t))

\* t[:k]
RECURSIVE Take(_, _)
Take(t, k) ==
    IF t = <<>> \/ k <= 0 THEN <<>>
    ELSE LET c == t[1]
             ls == Len(c.s)
         IN  IF ls + c.n <= k THEN <<c>> \o Take(Tail(t), k - ls - c.n)
             ELSE IF ls >= k THEN <<[s |-> SubSeq(c.s, 1, k), n |-> 0]>>
             ELSE <<[s |-> c.s, n |-> k - ls]>>

\* p in s, for strings
InStr(str, p) ==
    \E j \in 1..(Len(str) - Len(p) + 1) : SubSeq(str, j, j + Len(p) - 1) = p

\* p in t: the literal p occurs in the known part of t
Contains(t, p) == \E j \in DOMAIN t : InStr(t[j].s, p)

\* t.startswith(p)
StartsWith(t, p) ==
    /\ t # <<>>
    /\ Len(t[1].s) >= Len(p)
    /\ SubSeq(t[1].s, 1, Len(p)) = p

RECURSIVE Flatten(_)
Flatten(ts) == IF ts = <<>> THEN <<>> ELSE ts[1] \o Flatten(Tail(ts))

\* sep.join(ts)
RECURSIVE Join(_, _)
Join(sep, ts) ==
    IF ts = <<>> THEN <<>>
    ELSE IF Len(ts) = 1 THEN ts[1]
    ELSE ts[1] \o Lit(sep) \o Join(sep, Tail(ts))

Range(f) == {f[j] : j \in DOMAIN f}

\* the chunks of t merged, so that equal texts have equal representations
RECURSIVE Norm(_)
Norm(t) ==
    IF t = <<>> THEN <<>>
    ELSE LET c == t[1]
             r == Norm(Tail(t))
         IN  IF c.s = "" /\ c.n = 0 THEN r
             ELSE IF r # <<>> /\ r[1].s = "" THEN
                    <<[s |-> c.s, n |-> c.n + r[1].n]>> \o Tail(r)
             ELSE IF r # <<>> /\ c.n = 0 THEN
                    <<[s |-> c.s \o r[1].s, n |-> r[1].n]>> \o Tail(r)
             ELSE <<c>> \o r

\* the index from 0 of the last line break of the string str, or -1
LastBreakIn(str) ==
    LET hits == {j \in 1..Len(str) : SubSeq(str, j, j) = "\n"}
    IN  IF hits = {} THEN -1
        ELSE (CHOOSE j \in hits : \A h \in hits : h <= j) - 1

\* t.rindex('\n'), or -1 where rindex raises ValueError
RECURSIVE RIndex(_)
RIndex(t) ==
    IF t = <<>> THEN -1
    ELSE LET rest == RIndex(Tail(t))
         IN  IF rest >= 0 THEN Len(t[1].s) + t[1].n + rest
             ELSE LastBreakIn(t[1].s)

\* the lines of the string str that start with '+' or '-'; atStart tells
\* whether str begins at the start of a line
ChangesIn(str, atStart) ==
    Cardinality({j \in 1..Len(str) :
                   /\ SubSeq(str, j, j) \in {"+", "-"}
                   /\ IF j = 1 THEN atStart
                      ELSE SubSeq(str, j - 1, j - 1) = "\n"})

\* len([line for line in t.split('\n') if line starts with '+' or '-'])
RECURSIVE ChangeLines(_, _)
ChangeLines(t, atStart) ==
    IF t = <<>> THEN 0
    ELSE LET c == t[1]
             nxt == IF c.n > 0 THEN FALSE
                    ELSE IF c.s = "" THEN atStart
                    ELSE SubSeq(c.s, Len(c.s), Len(c.s)) = "\n"
         IN  ChangesIn(c.s, atStart) + ChangeLines(Tail(t), nxt)

\* ------------------------------------------------- collaborator contents
NoTime == 0

FileName(k) ==
    Lit("f" \o ToString(k) \o ".py") \o (IF k = 6 THEN Blank(66000) ELSE <<>>)

\* patch text of the k-th file of the pull request; <<>> is a file without
\* patch text (None or "")
PatchOf(k) ==
    CASE k = 1 -> Lit("@@ -1 +1 @@\n-a\n+b\n") \o Blank(2000)
      [] k = 2 -> Lit("@@ -1 +1 @@\n") \o Blank(12000)
      [] k = 3 -> <<>>
      [] k = 4 -> Lit("@@ -9 +9 @@\n") \o Blank(3500)
      [] k = 5 -> <<>>
      [] k = 6 -> Lit("@@ -2 +2 @@\n+x\n")
      [] OTHER -> Lit("@@ -3 +3 @@\n") \o Blank(4000)

File(k) == [filename |-> FileName(k), patch |-> PatchOf(k)]

Commit(k) ==
    [sha   |-> ToString(k) \o "abcdef0123456789",
     date  |-> CASE k = 1 -> 2 [] k = 2 -> 1 [] OTHER -> k + 1,
     files |-> CASE k = 1 -> {FileName(1), FileName(2)}
                 [] k = 2 -> {FileName(3), FileName(0)}
                 [] k = 3 -> {FileName(1), FileName(3), FileName(4),
                              FileName(5), FileName(6), FileName(0)}
                 [] OTHER -> {FileName(5), FileName(7)}]

\* the account the GitHub App comments as
AppLogin == "pr-reviewer[bot]"

\* the k-th comment of the pull request, oldest first
Comment(k) ==
    [type |-> IF k = 2 THEN "User" ELSE "Bot",
     login |-> CASE k = 2 -> "alice" [] k = 3 -> "ci-helper[bot]"
                 [] OTHER -> AppLogin,
     body |-> CASE k = 1 ->
                     Lit("# Code Review for Latest Changes\nReviewing commits: ")
                        \o Blank(300)
                [] k = 2 ->
                     Lit("> # Code Review for Latest Changes\nplease run again")
                [] k = 3 ->
                     Lit("# Initial Code Review for PR\nReviewing all commits: ")
                        \o Blank(300)
                [] OTHER -> Lit("Thanks for the contribution!"),
     created_at |-> k]

Configs ==
    { [secret |-> "s3cret", app |-> TRUE,  api_key |-> TRUE],
      [secret |-> "",       app |-> TRUE,  api_key |-> TRUE],
      [secret |-> "s3cret", app |-> FALSE, api_key |-> TRUE],
      [secret |-> "s3cret", app |-> TRUE,  api_key |-> FALSE] }

\* --------------------------------------------------------------- request
Events == {"pull_request", "push"}

\* raw request bodies, named by the action their JSON carries
Bodies == {"opened", "synchronize", "closed", "not_json"}

Digests == 0..3

Signatures ==
    { [kind |-> "missing",  tag |-> "", mac |-> 0],
      [kind |-> "empty",    tag |-> "", mac |-> 0],
      [kind |-> "nonascii", tag |-> "sha256=", mac |-> 0] }
    \cup { [kind |-> "ascii", tag |-> "sha256=", mac |-> d] : d \in Digests }
    \cup { [kind |-> "ascii", tag |-> "sha1=", mac |-> d] : d \in {1} }

BodyCode(b) ==
    CASE b = "opened" -> 1 [] b = "synchronize" -> 2 [] b = "closed" -> 3
      [] OTHER -> 0

\* hmac.new(key, msg, sha256).hexdigest(): a function of key and message
Hmac(key, msg) == (Len(key) + BodyCode(msg)) % 4

Inv == {1}

VARIABLES config, prFiles, commits, comments, inv

vars == <<config, prFiles, commits, comments, inv>>

IdleInv ==
    [pc |-> "idle", event |-> "", body |-> "",
     signature |-> [kind |-> "missing", tag |-> "", mac |-> 0],
     status |-> 0, result |-> "", reason |-> <<>>, action |-> "",
     last_review_time |-> NoTime, all_commits |-> <<>>,
     new_commits |-> <<>>, latest_files |-> {},
     commit_shas |-> <<>>, files_to_review |-> <<>>, review_header |-> <<>>,
     reviews |-> <<>>, review_errors |-> <<>>, idx |-> 1,
     calls |-> <<>>, attempts |-> <<>>]

Init ==
    /\ config \in Configs
    /\ \E n \in 0..MaxFiles : prFiles = [k \in 1..n |-> File(k)]
    /\ \E m \in 0..MaxCommits : commits = [k \in 1..m |-> Commit(k)]
    /\ \E c \in 0..MaxComments : comments = [k \in 1..c |-> Comment(k)]
    /\ inv = [i \in Inv |-> IdleInv]

\* the record of invocation i with the fields of upd replaced
With(i, upd) ==
    [inv EXCEPT ![i] = [f \in DOMAIN @ |->
                          IF f \in DOMAIN upd THEN upd[f] ELSE @[f]]]

\* the collaborator calls of invocation i so far, with op added
Called(i, op, kind) ==
    Append(inv[i].calls,
           [op |-> op, file |-> <<>>, kind |-> kind, payload |-> <<>>])

\* return jsonify(...), code
Respond(i, code, res) ==
    /\ inv' = With(i, [pc |-> "done", status |-> code, result |-> res])
    /\ UNCHANGED <<config, prFiles, commits, comments>>

\* the exception handlers of webhook(): any exception ends in HTTP 500
Fatal(i, cs) ==
    /\ inv' = With(i, [pc |-> "done", status |-> 500, result |-> "error",
                       calls |-> cs])
    /\ UNCHANGED <<config, prFiles, commits, comments>>

\* verify_webhook: TRUE, FALSE, or "raise" when compare_digest rejects a
\* non-ASCII str
verify_webhook(sig, body) ==
    IF sig.kind \in {"missing", "empty"} THEN "false"
    ELSE IF config.secret = "" THEN "false"
    ELSE IF sig.kind = "nonascii" THEN "raise"
    ELSE IF sig.tag = "sha256=" /\ sig.mac = Hmac(config.secret, body)
         THEN "true" ELSE "false"

\* the reason a skipped delivery is answered with
NotHandled(what, name) == Lit(what \o " " \o name \o " not handled")

Receive_ParseFirst(i) ==
    /\ inv[i].pc = "idle"
    /\ \E ev \in Events, b \in Bodies, sig \in Signatures :
         LET v == verify_webhook(sig, b)
             req == [event |-> ev, body |-> b, signature |-> sig]
             out == IF v = "raise" THEN
                        [pc |-> "done", status |-> 500, result |-> "error"]
                    ELSE IF v = "false" THEN
                        [pc |-> "done", status |-> 403, result |-> "error"]
                    ELSE IF b = "not_json" THEN
                        [pc |-> "done", status |-> 500, result |-> "error"]
                    ELSE IF ev # "pull_request" THEN
                        [pc |-> "done", status |-> 200, result |-> "skipped",
                         reason |-> NotHandled("Event", ev)]
                    ELSE IF b \notin {"opened", "synchronize"} THEN
                        [pc |-> "done", status |-> 200, result |-> "skipped",
                         reason |-> NotHandled("Action", b), action |-> b]
                    ELSE [pc |-> "client", action |-> b]
         IN  inv' = With(i, req @@ out)
    /\ UNCHANGED <<config, prFiles, commits, comments>>

\* webhook(), up to the action check
Receive(i) ==
    /\ inv[i].pc = "idle"
    /\ \E ev \in Events, b \in Bodies, sig \in Signatures :
         LET v == verify_webhook(sig, b)
             req == [event |-> ev, body |-> b, signature |-> sig]
             out == IF v = "raise" THEN
                        [pc |-> "done", status |-> 500, result |-> "error"]
                    ELSE IF v = "false" THEN
                        [pc |-> "done", status |-> 403, result |-> "error"]
                    ELSE IF ev # "pull_request" THEN
                        [pc |-> "done", status |-> 200, result |-> "skipped",
                         reason |-> NotHandled("Event", ev)]
                    ELSE IF b = "not_json" THEN
                        [pc |-> "done", status |-> 500, result |-> "error"]
                    ELSE IF b \notin {"opened", "synchronize"} THEN
                        [pc |-> "done", status |-> 200, result |-> "skipped",
                         reason |-> NotHandled("Action", b), action |-> b]
                    ELSE [pc |-> "client", action |-> b]
         IN  inv' = With(i, req @@ out)
    /\ UNCHANGED <<config, prFiles, commits, comments>>

\* get_github_client, get_repo, get_pull
GetClient(i) ==
    /\ inv[i].pc = "client"
    /\ IF ~config.app THEN Fatal(i, inv[i].calls)
       ELSE \E ok \in BOOLEAN :
              IF ok THEN
                /\ inv' = With(i, [pc |-> IF inv[i].action = "opened"
                                          THEN "opened_files"
                                          ELSE "last_review",
                                   calls |-> Called(i, "get_pull", "ok")])
                /\ UNCHANGED <<config, prFiles, commits, comments>>
              ELSE Fatal(i, Called(i, "get_pull", "fail"))

ShortSha_Six(sha) == SubSeq(sha, 1, 6)

\* sha[:7]
ShortSha(sha) == SubSeq(sha, 1, 7)

ShortShas(cs) == [j \in DOMAIN cs |-> ShortSha(cs[j].sha)]

\* the review header of either branch
Header(title, shas) ==
    Lit(title) \o Join(", ", [j \in DOMAIN shas |-> Lit(shas[j])])
               \o Lit("\n\n")

\* action == 'opened': files_to_review = list(pull.get_files())
GetFilesOpened(i) ==
    /\ inv[i].pc = "opened_files"
    /\ \E ok \in BOOLEAN :
         IF ok THEN
           /\ inv' = With(i, [pc |-> "opened_commits",
                              files_to_review |-> prFiles,
                              calls |-> Called(i, "get_files", "ok")])
           /\ UNCHANGED <<config, prFiles, commits, comments>>
         ELSE Fatal(i, Called(i, "get_files", "fail"))

\* action == 'opened': commits, commit_shas, review_header
GetCommitsOpened(i) ==
    /\ inv[i].pc = "opened_commits"
    /\ \E ok \in BOOLEAN :
         IF ok THEN
           /\ inv' = With(i,
                [pc |-> "limit",
                 all_commits |-> commits,
                 commit_shas |-> ShortShas(commits),
                 review_header |->
                    Header("# Initial Code Review for PR\nReviewing all commits: ",
                           ShortShas(commits)),
                 calls |-> Called(i, "get_commits", "ok")])
           /\ UNCHANGED <<config, prFiles, commits, comments>>
         ELSE Fatal(i, Called(i, "get_commits", "fail"))

IsReviewComment(c) ==
    /\ c.type = "Bot"
    /\ \/ Contains(c.body, "Code Review for Latest Changes")
       \/ Contains(c.body, "Initial Code Review for PR")

\* the scan of get_last_review_timestamp over the comments it was given
LastReview(cs) ==
    LET hits == {j \in DOMAIN cs : IsReviewComment(cs[j])}
    IN  IF hits = {} THEN NoTime
        ELSE cs[CHOOSE j \in hits : \A h \in hits : h <= j].created_at

\* get_last_review_timestamp(pull): a failed retrieval is caught and
\* answered with None
GetLastReview(i) ==
    /\ inv[i].pc = "last_review"
    /\ \E ok \in BOOLEAN :
         inv' = With(i, [pc |-> "sync_commits",
                         last_review_time |->
                            IF ok THEN LastReview(comments) ELSE NoTime,
                         calls |-> Called(i, "get_issue_comments",
                                          IF ok THEN "ok" ELSE "fail")])
    /\ UNCHANGED <<config, prFiles, commits, comments>>

NewCommits_Inclusive(all_commits, t) ==
    SelectSeq(all_commits, LAMBDA c : c.date >= t)

\* the commits to review after the watermark t
NewCommits(all_commits, t) ==
    SelectSeq(all_commits, LAMBDA c : c.date > t)

\* all_commits = list(pull.get_commits()) and the choice of new_commits
GetCommits(i) ==
    /\ inv[i].pc = "sync_commits"
    /\ \E ok \in BOOLEAN :
         IF ~ok THEN Fatal(i, Called(i, "get_commits", "fail"))
         ELSE IF inv[i].last_review_time # NoTime THEN
           /\ inv' = With(i, [pc |-> "commit_files",
                              all_commits |-> commits,
                              new_commits |->
                                 NewCommits(commits, inv[i].last_review_time),
                              calls |-> Called(i, "get_commits", "ok")])
           /\ UNCHANGED <<config, prFiles, commits, comments>>
         ELSE IF commits = <<>> THEN
           \* all_commits[-1] raises IndexError
           Fatal(i, Called(i, "get_commits", "ok"))
         ELSE
           /\ inv' = With(i, [pc |-> "commit_files",
                              all_commits |-> commits,
                              new_commits |-> <<commits[Len(commits)]>>,
                              calls |-> Called(i, "get_commits", "ok")])
           /\ UNCHANGED <<config, prFiles, commits, comments>>

get_files_from_commits_Last(cs) ==
    IF cs = <<>> THEN {} ELSE cs[Len(cs)].files

\* get_files_from_commits(commits): the union of the commits' file names
get_files_from_commits(cs) == UNION {cs[j].files : j \in DOMAIN cs}

GetCommitFiles(i) ==
    /\ inv[i].pc = "commit_files"
    /\ IF inv[i].new_commits = <<>> THEN
         /\ inv' = With(i, [pc |-> "sync_files", latest_files |-> {}])
         /\ UNCHANGED <<config, prFiles, commits, comments>>
       ELSE \E ok \in BOOLEAN :
         IF ok THEN
           /\ inv' = With(i, [pc |-> "sync_files",
                              latest_files |->
                                 get_files_from_commits(inv[i].new_commits),
                              calls |-> Called(i, "commit.files", "ok")])
           /\ UNCHANGED <<config, prFiles, commits, comments>>
         ELSE Fatal(i, Called(i, "commit.files", "fail"))

\* files_to_review, commit_shas and review_header of the synchronize branch
GetFilesSync(i) ==
    /\ inv[i].pc = "sync_files"
    /\ \E ok \in BOOLEAN :
         IF ok THEN
           /\ inv' = With(i,
                [pc |-> "limit",
                 files_to_review |->
                    SelectSeq(prFiles,
                              LAMBDA f : f.filename \in inv[i].latest_files),
                 commit_shas |-> ShortShas(inv[i].new_commits),
                 review_header |->
                    Header("# Code Review for Latest Changes\nReviewing commits: ",
                           ShortShas(inv[i].new_commits)),
                 calls |-> Called(i, "get_files", "ok")])
           /\ UNCHANGED <<config, prFiles, commits, comments>>
         ELSE Fatal(i, Called(i, "get_files", "fail"))

PatchKey_Largest(f) == IF f.patch # <<>> THEN 0 - TLen(f.patch) ELSE 0

\* len(x.patch) if x.patch else 0
PatchKey(f) == IF f.patch # <<>> THEN TLen(f.patch) ELSE 0

RECURSIVE InsertSorted(_, _)
InsertSorted(fs, x) ==
    IF fs = <<>> THEN <<x>>
    ELSE IF PatchKey(fs[1]) <= PatchKey(x)
         THEN <<fs[1]>> \o InsertSorted(Tail(fs), x)
         ELSE <<x>> \o fs

SortFiles_Unsorted(fs) == fs

\* list.sort(key=...): stable, ascending
RECURSIVE SortFiles(_)
SortFiles(fs) ==
    IF fs = <<>> THEN <<>>
    ELSE InsertSorted(SortFiles(SubSeq(fs, 1, Len(fs) - 1)), fs[Len(fs)])

\* sort by patch size and keep at most five files
Limit(i) ==
    /\ inv[i].pc = "limit"
    /\ LET sorted == SortFiles(inv[i].files_to_review)
           kept == IF Len(sorted) > 5 THEN SubSeq(sorted, 1, 5) ELSE sorted
           header == IF Len(sorted) > 5
                     THEN inv[i].review_header \o
                          Lit("_Note: Only reviewing the 5 smallest changed files._\n\n")
                     ELSE inv[i].review_header
       IN  inv' = With(i, [pc |-> IF kept = <<>> THEN "publish" ELSE "review",
                           files_to_review |-> kept,
                           review_header |-> header,
                           idx |-> 1])
    /\ UNCHANGED <<config, prFiles, commits, comments>>

\* ------------------------------------------------------------ inference
FailKinds ==
    {"timeout", "connection", "http_error", "bad_json", "no_choices",
     "malformed"}

\* completion texts of the inference endpoint
ReviewTexts ==
    { Lit("1. Positive points: clear naming."),
      Lit("Error: handling is missing in the new branch."),
      Lit("1. Positive points: ") \o Blank(2500) }

\* what one request to the inference endpoint can come back with
Responses ==
    { [kind |-> k, content |-> <<>>] : k \in FailKinds }
    \cup { [kind |-> "ok", content |-> c] : c \in ReviewTexts }

\* no request was made
NoResponse == [kind |-> "none", content |-> <<>>]

\* file_changes[:max_changes_length] has a line break to cut at
CanCut(file_changes) == RIndex(Take(file_changes, 3000)) >= 0

\* the truncation of lines 84-91: cut to 3000 characters, back to the last
\* complete line, and close with the count of changed lines
Truncated(file_changes) ==
    LET cut == Take(file_changes, 3000)
    IN  Take(cut, RIndex(cut))
           \o Lit("\n... (truncated, "
                    \o ToString(ChangeLines(file_changes, TRUE))
                    \o " total changes)")

\* file_changes as embedded in the user prompt
Shape(file_changes) ==
    IF TLen(file_changes) > 3000 THEN Truncated(file_changes)
    ELSE file_changes

\* analyze_code reaches requests.post
SendsRequest(file_changes) ==
    /\ config.api_key
    /\ TLen(file_changes) <= 10000
    /\ TLen(file_changes) > 3000 => CanCut(file_changes)

\* analyze_code(file_changes, file_name), given the endpoint's response
analyze_code(file_changes, resp) ==
    IF ~config.api_key THEN Lit("Error: Mistral API key not configured")
    ELSE IF TLen(file_changes) > 10000 THEN
      Lit("File changes too large for detailed review. Key changes include modifications to code structure and functionality.")
    ELSE IF TLen(file_changes) > 3000 /\ ~CanCut(file_changes) THEN
      \* rindex raises ValueError
      Lit("Error: Unable to complete code analysis")
    ELSE CASE resp.kind = "timeout" ->
                Lit("Error: Analysis timeout - file may be too complex")
           [] resp.kind \in {"connection", "http_error"} ->
                Lit("Error analyzing code: Request failed")
           [] resp.kind = "bad_json" ->
                Lit("Error: Invalid response format from code analysis service")
           [] resp.kind = "no_choices" ->
                Lit("Error: Invalid response from code analysis service")
           [] resp.kind = "malformed" ->
                Lit("Error: Unable to complete code analysis")
           [] OTHER ->
                IF TLen(resp.content) > 2000
                THEN Take(resp.content, 2000) \o Lit("\n... (truncated)")
                ELSE resp.content

\* review_comment.startswith("Error:")
IsErrorVerdict(review_comment) == StartsWith(review_comment, "Error:")

ErrorEntry(filename, review_comment) ==
    Lit("Error reviewing '") \o filename \o Lit("': ") \o review_comment

ReviewSection(filename, review_comment) ==
    Lit("### Review for '") \o filename \o Lit("':\n\n") \o review_comment
        \o Lit("\n\n---\n\n")

\* changes = "'''diff\n" + file.patch + "\n'''"
Fenced(patch) == Lit("'''diff\n") \o patch \o Lit("\n'''")

\* one iteration of the loop over files_to_review
ReviewFile(i) ==
    /\ inv[i].pc = "review"
    /\ LET file == inv[i].files_to_review[inv[i].idx]
           nxt == [pc |-> IF inv[i].idx = Len(inv[i].files_to_review)
                          THEN "publish" ELSE "review",
                   idx |-> inv[i].idx + 1]
           changes == Fenced(file.patch)
       IN  IF file.patch = <<>> THEN inv' = With(i, nxt)
           ELSE \E resp \in Responses :
                  /\ SendsRequest(changes) \/ resp.kind = "timeout"
                  /\ LET review_comment == analyze_code(changes, resp)
                         cs == IF SendsRequest(changes)
                               THEN Append(inv[i].calls,
                                           [op |-> "inference",
                                            file |-> file.filename,
                                            kind |-> resp.kind,
                                            payload |-> Shape(changes)])
                               ELSE inv[i].calls
                     IN  inv' = With(i, nxt @@
                           IF IsErrorVerdict(review_comment)
                           THEN [review_errors |->
                                    Append(inv[i].review_errors,
                                           ErrorEntry(file.filename,
                                                      review_comment)),
                                 calls |-> cs]
                           ELSE [reviews |->
                                    Append(inv[i].reviews,
                                           ReviewSection(file.filename,
                                                         review_comment)),
                                 calls |-> cs])
    /\ UNCHANGED <<config, prFiles, commits, comments>>

\* ------------------------------------------------------------ publishing
\* header + success sections + error section
FullReview(header, reviews, review_errors) ==
    header \o Flatten(reviews)
           \o (IF review_errors # <<>>
               THEN Lit("\n### Review Errors:\n") \o Join("\n", review_errors)
               ELSE <<>>)

\* the combined review, cut to 65000 characters
CombinedReview(header, reviews, review_errors) ==
    LET full == FullReview(header, reviews, review_errors)
    IN  IF TLen(full) > 65000
        THEN Take(full, 65000) \o Lit("\n\n... (Review truncated due to length)")
        ELSE full

ShortReview_NoNames(header, files) ==
    header \o Lit("\nReview too large to post. Summary of files reviewed:\n")

\* the file-list fallback
ShortReview(header, files) ==
    header \o Lit("\nReview too large to post. Summary of files reviewed:\n")
           \o Flatten([j \in DOMAIN files |->
                         Lit("- ") \o files[j].filename \o Lit("\n")])

Posted_Twice(body) ==
    LET c == [type |-> "Bot", login |-> AppLogin, body |-> body,
              created_at |-> Len(comments) + 1]
    IN  Append(Append(comments, c), c)

\* pull.create_issue_comment(body), when the collaborator accepts it
Posted(body) ==
    Append(comments, [type |-> "Bot", login |-> AppLogin, body |-> body,
                      created_at |-> Len(comments) + 1])

\* the first create_issue_comment, or the return when nothing was reviewed
Publish(i) ==
    /\ inv[i].pc = "publish"
    /\ IF inv[i].reviews = <<>> /\ inv[i].review_errors = <<>>
       THEN Respond(i, 200, "success")
       ELSE LET body == CombinedReview(inv[i].review_header, inv[i].reviews,
                                       inv[i].review_errors)
            IN  \E ok \in BOOLEAN :
                  LET cs == Called(i, "create_issue_comment",
                                   IF ok THEN "ok" ELSE "fail") IN
                  IF ok THEN
                    /\ inv' = With(i, [pc |-> "done", status |-> 200,
                                       result |-> "success", calls |-> cs,
                                       attempts |-> Append(inv[i].attempts,
                                          [doc |-> "combined", body |-> body,
                                           ok |-> TRUE])])
                    /\ comments' = Posted(body)
                    /\ UNCHANGED <<config, prFiles, commits>>
                  ELSE
                    /\ inv' = With(i, [pc |-> "fallback", calls |-> cs,
                                       attempts |-> Append(inv[i].attempts,
                                          [doc |-> "combined", body |-> body,
                                           ok |-> FALSE])])
                    /\ UNCHANGED <<config, prFiles, commits, comments>>

\* the second create_issue_comment, with the list of file names
Fallback(i) ==
    /\ inv[i].pc = "fallback"
    /\ LET body == ShortReview(inv[i].review_header, inv[i].files_to_review)
       IN  \E ok \in BOOLEAN :
             /\ inv' = With(i, [pc |-> "done", status |-> 200,
                                result |-> "success",
                                calls |-> Called(i, "create_issue_comment",
                                                 IF ok THEN "ok" ELSE "fail"),
                                attempts |-> Append(inv[i].attempts,
                                   [doc |-> "short", body |-> body,
                                    ok |-> ok])])
             /\ comments' = IF ok THEN Posted(body) ELSE comments
             /\ UNCHANGED <<config, prFiles, commits>>

\* one step of the invocation i of webhook()
Handle(i) ==
    \/ Receive(i)
    \/ GetClient(i)
    \/ GetFilesOpened(i)
    \/ GetCommitsOpened(i)
    \/ GetLastReview(i)
    \/ GetCommits(i)
    \/ GetCommitFiles(i)
    \/ GetFilesSync(i)
    \/ Limit(i)
    \/ ReviewFile(i)
    \/ Publish(i)
    \/ Fallback(i)

Next == \E i \in Inv : Handle(i)

Spec == Init /\ [][Next]_vars

\* ------------------------------------------------- payloads near the limits
\* patch texts around max_changes_length (3000) and the 10000 limit
Diffs ==
    { Lit("@@ -2 +2 @@\n+x\n"),
      Lit("@@ -1 +1 @@\n-a\n+b\n") \o Blank(2970),
      Lit("@@ -1 +1 @@\n-a\n+b\n") \o Blank(2971),
      Lit("@@ -1 +1 @@\n-a\n+b\n") \o Blank(2950) \o Lit("\n+c\n")
         \o Blank(500) \o Lit("\n+d\n-e"),
      Lit("@@ -1 +1 @@\n-a\n") \o Blank(4000) \o Lit("\n+b\n-c\n+d"),
      Lit("@@ -1 +1 @@\n") \o Blank(9976),
      Lit("@@ -1 +1 @@\n") \o Blank(9988),
      Lit("@@ -1 +1 @@\n") \o Blank(9989) }

\* a pull request with one file whose patch is one of Diffs
ShaperInit ==
    /\ config \in Configs
    /\ \E d \in Diffs : prFiles = <<[filename |-> FileName(1), patch |-> d]>>
    /\ commits = <<Commit(1)>>
    /\ \E c \in 0..1 : comments = [k \in 1..c |-> Comment(k)]
    /\ inv = [i \in Inv |-> IdleInv]

ShaperSpec == ShaperInit /\ [][Next]_vars

\* ------------------------------------------- two deliveries, one pull request
\* the deliveries for the same pull request
Deliveries == {1, 2}

\* the deployment with every setting present
Configured ==
    CHOOSE c \in Configs : c.secret # "" /\ c.app /\ c.api_key

\* a pull request with one file, to which one more commit can be pushed
PairInit ==
    /\ config = Configured
    /\ prFiles = <<File(1)>>
    /\ commits = [k \in 1..(MaxCommits - 1) |-> Commit(k)]
    /\ \E c \in {0, 2} : comments = [k \in 1..c |-> Comment(k)]
    /\ inv = [i \in Deliveries |-> IdleInv]

\* a push to the branch of the pull request: pull.get_commits() grows
Push ==
    /\ Len(commits) < MaxCommits
    /\ commits' = Append(commits, Commit(Len(commits) + 1))
    /\ UNCHANGED <<config, prFiles, comments, inv>>

\* the deliveries are handled concurrently, one worker each
RaceNext == (\E i \in Deliveries : Handle(i)) \/ Push

RaceSpec == PairInit /\ [][RaceNext]_vars

\* the deliveries are handled one after the other
SeqNext ==
    \/ \E i \in Deliveries :
          /\ \A j \in Deliveries : j < i => inv[j].pc = "done"
          /\ Handle(i)
    \/ Push

SeqSpec == PairInit /\ [][SeqNext]_vars

\* ---------------------------------------------------------------- claims
\* invocation i is past the size limit of its scope
Limited(i) ==
    \/ inv[i].pc \in {"review", "publish", "fallback"}
    \/ inv[i].pc = "done" /\ inv[i].result = "success"

Names(fs) == {fs[j].filename : j \in DOMAIN fs}

\* the signature of invocation i is missing or is not the expected one
BadSignature(i) ==
    \/ inv[i].signature.kind # "ascii"
    \/ inv[i].signature.tag # "sha256="
    \/ inv[i].signature.mac # Hmac(config.secret, inv[i].body)

\* C1: a request whose signature header is missing or differs from
\* 'sha256=' + HMAC-SHA256(secret, body), and any request when no secret is
\* configured, ends with HTTP 403 and makes no collaborator call.
C1_RejectedWith403 ==
    \A i \in Inv :
       (inv[i].pc # "idle" /\ (BadSignature(i) \/ config.secret = ""))
          => /\ inv[i].pc = "done"
             /\ inv[i].status = 403
             /\ inv[i].calls = <<>>

\* C2 as claimed: for action 'opened' the files the handler resolves and
\* reviews are the full current file list, whatever the number of files.
C2_OpenedReviewsAllFiles ==
    \A i \in Inv :
       (inv[i].action = "opened" /\ Limited(i))
          => Names(inv[i].files_to_review) = Names(prFiles)

\* C2 amended: for action 'opened' the scope resolved from the pull
\* request is its full current file list, in the reported order; the files
\* then reviewed are that list when it has at most 5 files, and otherwise 5
\* of its files, none with a larger patch than any file left out.
C2_OpenedScope ==
    \A i \in Inv :
       inv[i].action = "opened" =>
          /\ inv[i].pc \in {"opened_commits", "limit"}
                => inv[i].files_to_review = prFiles
          /\ Limited(i) =>
                LET kept == inv[i].files_to_review
                IN  /\ Names(kept) \subseteq Names(prFiles)
                    /\ Len(kept) = Cardinality(Names(kept))
                    /\ Len(prFiles) <= 5 => Names(kept) = Names(prFiles)
                    /\ Len(prFiles) > 5 => Len(kept) = 5
                    /\ \A f \in Range(prFiles), g \in Range(kept) :
                          f \notin Range(kept) => PatchKey(g) <= PatchKey(f)

\* C2 witness: an opened pull request with more than 5 files, cut to 5, with
\* a file with patch text left out
C2_Witness ==
    \E i \in Inv :
       /\ inv[i].action = "opened"
       /\ Limited(i)
       /\ Len(prFiles) > 5
       /\ Len(inv[i].files_to_review) = 5
       /\ \E f \in Range(prFiles) :
             /\ f \notin Range(inv[i].files_to_review)
             /\ PatchKey(f) > 0

\* invocation i has chosen its new commits
HasNewCommits(i) ==
    /\ inv[i].action = "synchronize"
    /\ \/ inv[i].pc \in {"commit_files", "sync_files", "limit"}
       \/ Limited(i)

\* the 7-character tokens of a header, in order
HeaderShas(h) ==
    LET toks == SelectSeq(h, LAMBDA c : Len(c.s) = 7 /\ c.n = 0)
    IN  [j \in DOMAIN toks |-> toks[j].s]

PositionOf(c) == CHOOSE k \in DOMAIN commits : commits[k] = c

\* C3: on 'synchronize' with a watermark T, the new commits are exactly the
\* commits of the pull request with author timestamp > T (a commit at T is
\* left out), in the collaborator's order, and the header lists the
\* 7-character SHA of exactly those commits.
C3_CommitsAfterWatermark ==
    \A i \in Inv :
       (HasNewCommits(i) /\ inv[i].last_review_time # NoTime) =>
          LET new == inv[i].new_commits
              T == inv[i].last_review_time
          IN  /\ \A c \in Range(commits) : c \in Range(new) <=> c.date > T
              /\ Range(new) \subseteq Range(commits)
              /\ \A a, b \in DOMAIN new :
                    a < b => PositionOf(new[a]) < PositionOf(new[b])
              /\ (inv[i].pc = "limit" \/ Limited(i)) =>
                    /\ Len(HeaderShas(inv[i].review_header)) = Len(new)
                    /\ \A j \in DOMAIN new :
                          /\ Len(HeaderShas(inv[i].review_header)[j]) = 7
                          /\ HeaderShas(inv[i].review_header)[j]
                                = SubSeq(new[j].sha, 1, 7)
                    /\ Contains(inv[i].review_header,
                                "Code Review for Latest Changes")

\* C3 witness: a watermark T, two commits after it and one exactly at T
C3_Witness ==
    \E i \in Inv :
       /\ HasNewCommits(i)
       /\ inv[i].pc = "limit"
       /\ inv[i].last_review_time # NoTime
       /\ Len(inv[i].new_commits) = 2
       /\ \E c \in Range(commits) : c.date = inv[i].last_review_time

\* the comments and the commits of invocation i were retrieved, and no
\* review comment of the bot exists
NoWatermark(i) ==
    /\ inv[i].action = "synchronize"
    /\ inv[i].pc \notin {"idle", "client", "last_review", "sync_commits"}
    /\ \A j \in DOMAIN comments : ~IsReviewComment(comments[j])
    /\ \A c \in Range(inv[i].calls) : c.kind # "fail"

\* C4: on 'synchronize' without a prior review comment the new commits are
\* exactly the most recent commit; with an empty commit list the invocation
\* does not fail and resolves an empty commit set and an empty file scope.
C4_FallbackToLastCommit ==
    \A i \in Inv :
       NoWatermark(i) =>
          IF commits = <<>>
          THEN /\ inv[i].status # 500
               /\ inv[i].new_commits = <<>>
               /\ inv[i].files_to_review = <<>>
          ELSE inv[i].new_commits = <<commits[Len(commits)]>>

C6_RetrievalFailureAborts ==
    \A i \in Inv :
       (/\ inv[i].action = "synchronize"
        /\ \E c \in Range(inv[i].calls) :
              /\ c.op \in {"get_issue_comments", "get_commits"}
              /\ c.kind = "fail")
          => inv[i].pc = "done" /\ inv[i].status = 500

\* r is the success section of the file named filename
IsSectionFor(r, filename) ==
    /\ Len(r) > Len(filename)
    /\ SubSeq(r, 1, 1 + Len(filename)) = Lit("### Review for '") \o filename

\* e is the error entry of the file named filename
IsErrorFor(e, filename) ==
    /\ Len(e) > Len(filename) + 1
    /\ SubSeq(e, 1, 2 + Len(filename))
          = Lit("Error reviewing '") \o filename \o Lit("': ")

\* the verdict text carried by the error entry e of the file named filename
VerdictOf(e, filename) == SubSeq(e, 3 + Len(filename), Len(e))

InferenceCalls(i) == {c \in Range(inv[i].calls) : c.op = "inference"}

\* C7: a verdict that comes from a failed inference call (timeout, request
\* failure, non-success status, unparsable body, no choices) is in the error
\* section and never in a success section; success sections come only from
\* successful completions.
C7_FailedCallsInErrorSection ==
    \A i \in Inv :
       /\ \A c \in InferenceCalls(i) :
             c.kind \in FailKinds =>
                /\ \E e \in Range(inv[i].review_errors) : IsErrorFor(e, c.file)
                /\ \A r \in Range(inv[i].reviews) : ~IsSectionFor(r, c.file)
       /\ \A r \in Range(inv[i].reviews) :
             \E c \in InferenceCalls(i) :
                c.kind = "ok" /\ IsSectionFor(r, c.file)

SectionsFor(i, filename) ==
    {j \in DOMAIN inv[i].reviews : IsSectionFor(inv[i].reviews[j], filename)}

ErrorsFor(i, filename) ==
    {j \in DOMAIN inv[i].review_errors :
        IsErrorFor(inv[i].review_errors[j], filename)}

\* the loop over files_to_review of invocation i has ended
Reviewed(i) ==
    \/ inv[i].pc \in {"publish", "fallback"}
    \/ inv[i].pc = "done" /\ inv[i].result = "success"

\* C8: a file whose inference call times out or fails in another way
\* contributes exactly one error verdict (beginning with the timeout marker
\* when it timed out), and every file with patch text gets exactly one
\* verdict under its own path; no file's failure aborts the batch.
C8_FailuresIsolated ==
    \A i \in Inv :
       /\ InferenceCalls(i) # {} => inv[i].status # 500
       /\ Reviewed(i) =>
             \A f \in Range(inv[i].files_to_review) :
                f.patch # <<>> =>
                   /\ Cardinality(SectionsFor(i, f.filename))
                         + Cardinality(ErrorsFor(i, f.filename)) = 1
                   /\ \A c \in InferenceCalls(i) :
                         (c.file = f.filename /\ c.kind \in FailKinds) =>
                            /\ Cardinality(ErrorsFor(i, f.filename)) = 1
                            /\ c.kind = "timeout" =>
                                 \A j \in ErrorsFor(i, f.filename) :
                                    StartsWith(
                                       VerdictOf(inv[i].review_errors[j],
                                                 f.filename),
                                       "Error: Analysis timeout")

\* the combined document of invocation i before any cut
FullOf(i) ==
    FullReview(inv[i].review_header, inv[i].reviews, inv[i].review_errors)

\* C9: every body submitted to the comment-creation operation has at most
\* 65,536 characters, and when the full combined document is longer than
\* that, the body that is published carries the truncation notice.
C9_BodiesUnderCeiling ==
    \A i \in Inv :
       \A a \in Range(inv[i].attempts) :
          /\ TLen(a.body) <= 65536
          /\ (a.ok /\ TLen(FullOf(i)) > 65536) =>
                Contains(a.body, "... (Review truncated due to length)")

ListsFile(body, filename) ==
    \E j \in DOMAIN body :
       /\ j + Len(filename) + 1 <= Len(body)
       /\ SubSeq(body, j, j + Len(filename) + 1)
             = Lit("- ") \o filename \o Lit("\n")

Published(i) == inv[i].pc = "done" /\ inv[i].attempts # <<>>

\* C11: no failure of a publish attempt leaves the publisher as an
\* exception, and the invocation reports a posting failure exactly when
\* every publish attempt failed: then its outcome is not 'success'; when
\* some attempt succeeded, the outcome is 'success'.
C11_PostingFailureReported ==
    \A i \in DOMAIN inv :
       Published(i) =>
          /\ inv[i].status # 500
          /\ (\A a \in Range(inv[i].attempts) : ~a.ok)
                <=> inv[i].result # "success"

\* the bodies of the attempts of invocation i that the collaborator accepted
Accepted(i) == SelectSeq(inv[i].attempts, LAMBDA a : a.ok)

\* C12: one invocation creates at most one comment on the pull request: the
\* comments are those that existed before, followed by the body of its one
\* accepted attempt, if any; nothing is attempted when no verdict was
\* produced, and an accepted attempt is the last attempt.
C12_AtMostOneComment ==
    \A i \in DOMAIN inv :
       LET as == inv[i].attempts
           before == Len(comments) - Len(Accepted(i))
       IN  /\ Len(Accepted(i)) <= 1
           /\ before >= 0
           /\ \A k \in 1..before : comments[k] = Comment(k)
           /\ Len(Accepted(i)) = 1 =>
                 /\ comments[Len(comments)].body = Accepted(i)[1].body
                 /\ as[Len(as)].ok
           /\ \A k \in DOMAIN as : as[k].ok => k = Len(as)
           /\ (inv[i].reviews = <<>> /\ inv[i].review_errors = <<>>) =>
                 as = <<>>
           /\ (inv[i].pc = "done" /\ as = <<>>) =>
                 Len(comments) = before

\* C12 witness: the first post failed, the fallback was accepted, and the
\* pull request has exactly one comment more than before
C12_Witness ==
    \E i \in DOMAIN inv :
       /\ inv[i].pc = "done"
       /\ Len(inv[i].attempts) = 2
       /\ Len(Accepted(i)) = 1
       /\ Len(comments) >= 1
       /\ comments[Len(comments)].body = inv[i].attempts[2].body
       /\ \A k \in 1..(Len(comments) - 1) : comments[k] = Comment(k)

\* the files of invocation i that its loop has passed
Passed(i) ==
    IF Limited(i)
    THEN {inv[i].files_to_review[k] :
             k \in {j \in DOMAIN inv[i].files_to_review : j < inv[i].idx}}
    ELSE {}

\* the verdict of the file named filename is the fixed placeholder
HasPlaceholder(i, filename) ==
    \E r \in Range(inv[i].reviews) :
       /\ IsSectionFor(r, filename)
       /\ Contains(r, "File changes too large for detailed review.")

Requested(i, filename) == \E c \in InferenceCalls(i) : c.file = filename

\* C13: with the inference key configured, a file gets the fixed placeholder,
\* and no inference request, exactly when its raw diff text has more than
\* 10,000 characters; a raw diff of at most 10,000 characters is sent.
C13_PlaceholderOverThreshold ==
    \A i \in DOMAIN inv :
       config.api_key =>
          \A f \in Passed(i) :
             f.patch # <<>> =>
                /\ HasPlaceholder(i, f.filename) <=> TLen(f.patch) > 10000
                /\ Requested(i, f.filename) <=> TLen(f.patch) <= 10000

\* the patch text of the file that the call c is about
PatchFor(c) ==
    (CHOOSE f \in Range(prFiles) : f.filename = c.file).patch

\* C14: for a diff text of fewer than 3,000 characters the text embedded in
\* the inference request is the whole diff inside a complete diff-tagged
\* fence, without a truncation marker.
C14_SmallDiffUnmodified ==
    \A i \in DOMAIN inv :
       \A c \in InferenceCalls(i) :
          TLen(PatchFor(c)) < 3000 =>
             /\ Norm(c.payload) = Norm(Fenced(PatchFor(c)))
             /\ ~Contains(c.payload, "... (truncated, ")

\* C15: the truncation step applied to a text it has truncated returns that
\* text unchanged.
C15_TruncationIdempotent ==
    \A i \in DOMAIN inv :
       \A c \in InferenceCalls(i) :
          Contains(c.payload, "... (truncated, ") =>
             Norm(Shape(c.payload)) = Norm(c.payload)

\* the request of invocation i carries the expected signature
Signed(i) ==
    inv[i].pc # "idle" /\ ~BadSignature(i) /\ config.secret # ""

\* invocation i went on to the collaborator
Proceeded(i) == inv[i].pc \notin {"idle", "done"} \/ inv[i].calls # <<>>

Skipped(i) ==
    /\ inv[i].pc = "done"
    /\ inv[i].status = 200
    /\ inv[i].result = "skipped"
    /\ Contains(inv[i].reason, "not handled")
    /\ inv[i].calls = <<>>

\* C16 as claimed: a correctly signed request proceeds only when its event
\* is 'pull_request' and its action is 'opened' or 'synchronize'; every
\* other signed request ends with HTTP 200 'skipped' with a reason, is not
\* an error and makes no collaborator call.
C16_OthersSkipped ==
    \A i \in DOMAIN inv :
       Signed(i) =>
          IF /\ inv[i].event = "pull_request"
             /\ inv[i].body \in {"opened", "synchronize"}
          THEN inv[i].action = inv[i].body
          ELSE Skipped(i)

\* C16 amended: a correctly signed request proceeds only when its event is
\* 'pull_request' and its action is 'opened' or 'synchronize'.  A signed
\* request of another event type, and a signed 'pull_request' request whose
\* payload carries another action, end with HTTP 200 'skipped' with a
\* reason and without a collaborator call; a signed 'pull_request' request
\* whose payload cannot be read ends with HTTP 500, also without a call.
C16_Routing ==
    \A i \in DOMAIN inv :
       Signed(i) =>
          /\ Proceeded(i) =>
                /\ inv[i].event = "pull_request"
                /\ inv[i].body \in {"opened", "synchronize"}
                /\ inv[i].action = inv[i].body
          /\ inv[i].event # "pull_request" => Skipped(i)
          /\ (inv[i].event = "pull_request" /\ inv[i].body = "not_json") =>
                /\ inv[i].pc = "done"
                /\ inv[i].status = 500
                /\ inv[i].calls = <<>>
          /\ (/\ inv[i].event = "pull_request"
              /\ inv[i].body \notin {"opened", "synchronize", "not_json"}) =>
                Skipped(i)

\* C16 witness: a signed 'pull_request' delivery with action 'closed' was
\* skipped
C16_Witness ==
    \E i \in DOMAIN inv :
       /\ Signed(i)
       /\ inv[i].event = "pull_request"
       /\ inv[i].body = "closed"
       /\ Skipped(i)
       /\ Contains(inv[i].reason, "Action closed")

\* invocation i retrieved the comments of the pull request
Looked(i) ==
    \E c \in Range(inv[i].calls) :
       c.op = "get_issue_comments" /\ c.kind = "ok"

\* the review comments written by the automation identity itself
OwnReviews ==
    {j \in DOMAIN comments :
        /\ comments[j].login = AppLogin
        /\ \/ Contains(comments[j].body, "Code Review for Latest Changes")
           \/ Contains(comments[j].body, "Initial Code Review for PR")}

\* C17: the watermark the lookup returns is the creation time of the most
\* recent comment that the automation identity wrote and that contains one
\* of the two markers; comments of other authors, other automated accounts
\* included, and comments without a marker never set it, and without such a
\* comment there is no watermark.
C17_WatermarkIsOwnLastReview ==
    \A i \in DOMAIN inv :
       (Looked(i) /\ Accepted(i) = <<>>) =>
          inv[i].last_review_time =
             IF OwnReviews = {} THEN NoTime
             ELSE comments[CHOOSE j \in OwnReviews :
                              \A h \in OwnReviews : h <= j].created_at

\* a is b or the beginning of b
IsPrefix(a, b) == Len(a) <= Len(b) /\ SubSeq(b, 1, Len(a)) = a

\* the 'synchronize' invocations i and j both retrieved the comments and
\* got the same watermark.  A comment posted by either carries a marker and
\* a creation time later than every earlier comment, so a lookup made after
\* it returns that later time: equal watermarks mean both lookups were made
\* before either invocation posted.
SameRead(i, j) ==
    /\ i # j
    /\ inv[i].action = "synchronize" /\ inv[j].action = "synchronize"
    /\ Looked(i) /\ Looked(j)
    /\ inv[i].last_review_time = inv[j].last_review_time

\* the commits that are in the new commits of both i and j
Shared(i, j) == Range(inv[i].new_commits) \cap Range(inv[j].new_commits)

\* the accepted comment of invocation i names the commit c
Covers(i, c) ==
    /\ Accepted(i) # <<>>
    /\ Contains(Accepted(i)[1].body, SubSeq(c.sha, 1, 7))
    /\ \E k \in DOMAIN comments : comments[k].body = Accepted(i)[1].body

\* C18: nothing keeps two overlapping 'synchronize' invocations for one pull
\* request apart.  When both read the comment history before either posts,
\* both filter the commits with the same watermark: the commit set of one is
\* the beginning of the other's, and each comment that is posted names every
\* commit the two sets share.
C18_OverlappingReviews ==
    \A i, j \in DOMAIN inv :
       (SameRead(i, j) /\ HasNewCommits(i) /\ HasNewCommits(j)) =>
          /\ inv[i].last_review_time # NoTime =>
                \/ IsPrefix(inv[i].new_commits, inv[j].new_commits)
                \/ IsPrefix(inv[j].new_commits, inv[i].new_commits)
          /\ \A c \in Shared(i, j) :
                /\ Accepted(i) # <<>> => Covers(i, c)
                /\ Accepted(j) # <<>> => Covers(j, c)

\* Under SeqSpec delivery 1 ends before delivery 2 starts, so the comment of
\* delivery 1 is the first one after the comments that existed before.
FirstPosted ==
    comments[Len(comments) - Len(Accepted(1)) - Len(Accepted(2)) + 1]

\* every commit that delivery 1 saw was authored before its comment
AuthoredBefore ==
    \A c \in Range(inv[1].all_commits) : c.date < FirstPosted.created_at

\* the commits that the review of invocation i is about
CommitSet(i) ==
    IF inv[i].action = "opened" THEN inv[i].all_commits
    ELSE inv[i].new_commits

\* invocation i is past its lookup of the watermark
PastLookup(i) ==
    \E c \in Range(inv[i].calls) : c.op = "get_issue_comments"

\* C19: for deliveries handled one after the other, with every commit
\* authored before the comment of an invocation that saw it: once a
\* delivery has posted a comment, a later 'synchronize' delivery finds that
\* comment as its watermark, its commit set holds no commit of the posting
\* delivery's commit set, and when no commit was pushed in between it
\* resolves an empty scope and posts nothing.
C19_NoDuplicateReview ==
    (Accepted(1) # <<>> /\ AuthoredBefore /\ inv[2].action = "synchronize") =>
       /\ PastLookup(2) =>
             inv[2].last_review_time = FirstPosted.created_at
       /\ HasNewCommits(2) =>
             /\ Range(inv[2].new_commits) \cap Range(CommitSet(1)) = {}
             /\ inv[2].all_commits = inv[1].all_commits =>
                   /\ inv[2].new_commits = <<>>
                   /\ inv[2].files_to_review = <<>>
                   /\ inv[2].attempts = <<>>

\* C18 witness: both invocations read the same watermark, the second one
\* after a push, and both posted a review comment that names a commit of
\* both commit sets
C18_Witness ==
    \E i, j \in DOMAIN inv :
       /\ SameRead(i, j)
       /\ inv[i].pc = "done" /\ inv[j].pc = "done"
       /\ inv[i].new_commits # inv[j].new_commits
       /\ Accepted(i) # <<>> /\ Accepted(j) # <<>>
       /\ Len(comments) >= 2
       /\ comments[Len(comments) - 1].body = Accepted(i)[1].body
       /\ comments[Len(comments)].body = Accepted(j)[1].body
       /\ \E c \in Shared(i, j) : Covers(i, c) /\ Covers(j, c)

\* the file scope that invocation i resolved, before the limit
ResolvedScope(i) ==
    IF inv[i].action = "opened" THEN prFiles
    ELSE SelectSeq(prFiles, LAMBDA f : f.filename \in inv[i].latest_files)

\* C20: at most 5 files are considered and at most 5 inference requests are
\* issued; of a resolved scope of more than 5 files the 5 kept are those
\* with the smallest patch length, a file without patch text counting as
\* length 0: it takes a place and is then passed over without a verdict;
\* and the header carries the note exactly when the resolved scope had more
\* than 5 files.
C20_FiveSmallestFiles ==
    \A i \in DOMAIN inv :
       Limited(i) =>
          LET kept == inv[i].files_to_review
              scope == ResolvedScope(i)
              note == "_Note: Only reviewing the 5 smallest changed files._"
          IN  /\ Len(kept) <= 5
              /\ Len(SelectSeq(inv[i].calls,
                               LAMBDA c : c.op = "inference")) <= 5
              /\ Len(kept) = IF Len(scope) > 5 THEN 5 ELSE Len(scope)
              /\ Range(kept) \subseteq Range(scope)
              /\ \A f \in Range(scope), g \in Range(kept) :
                    f \notin Range(kept) =>
                       (IF g.patch = <<>> THEN 0 ELSE TLen(g.patch))
                          <= (IF f.patch = <<>> THEN 0 ELSE TLen(f.patch))
              /\ \A f \in Passed(i) :
                    f.patch = <<>> =>
                       /\ SectionsFor(i, f.filename) = {}
                       /\ ErrorsFor(i, f.filename) = {}
                       /\ ~Requested(i, f.filename)
              /\ Contains(inv[i].review_header, note) <=> Len(scope) > 5

\* C20 witness: a 'synchronize' delivery with 6 files in scope has ended; a
\* file without patch text was kept and passed over, a file with patch text
\* was left out, and the header carries the note
C20_Witness ==
    \E i \in DOMAIN inv :
       /\ inv[i].action = "synchronize"
       /\ inv[i].pc = "done"
       /\ inv[i].result = "success"
       /\ Len(ResolvedScope(i)) = 6
       /\ Len(inv[i].files_to_review) = 5
       /\ \E g \in Range(inv[i].files_to_review) : g.patch = <<>>
       /\ \E f \in Range(ResolvedScope(i)) :
             f \notin Range(inv[i].files_to_review) /\ f.patch # <<>>
       /\ Contains(inv[i].review_header, "Only reviewing the 5 smallest")
====
